---- MODULE Spec2Model ----
(***************************************************************************)
(* A model of sofascore_scraper.py: the two scrapers' find_metrics, the    *)
(* heuristic label/value resolution, the generated metric classes          *)
(* (MetricBase.fetch_raw / get_value) and the metaclass MetricMeta that    *)
(* installs them.                                                          *)
(*                                                                         *)
(* Representation.                                                         *)
(*  - A Python str is a sequence of one-character strings.                 *)
(*  - A Python value is a record with a field k: None, a str, a float, or  *)
(*    a function object (the closure the code can hand back).              *)
(*  - A float is [sign, mant, exp] = sign * mant / 10^exp with exp minimal *)
(*    (the sign is kept on zero, as float("-0") keeps it).                 *)
(*  - A document tree is a sequence of top-level elements; an element is   *)
(*    [tag, text, kids]: a leaf holds one text string (or none), a         *)
(*    container holds leaf elements. The BeautifulSoup object is the root. *)
(***************************************************************************)
EXTENDS Integers, Sequences, FiniteSets, TLC

-----------------------------------------------------------------------------
(* Characters and strings *)

\* The alphabet is the characters a module can spell: code points 0 to 255. A
\* character beyond them, which only str.title() can produce here, is written
\* by its code point ("U+0178").

AsciiUpperLetters == <<"A","B","C","D","E","F","G","H","I","J","K","L","M",
                     "N","O","P","Q","R","S","T","U","V","W","X","Y","Z">>

AsciiLowerLetters == <<"a","b","c","d","e","f","g","h","i","j","k","l","m",
                     "n","o","p","q","r","s","t","u","v","w","x","y","z">>

\* the other letters with an upper and a lower form in the alphabet
Latin1UpperLetters == <<"À","Á","Â","Ã","Ä","Å","Æ","Ç","È","É","Ê","Ë","Ì",
                      "Í","Î","Ï","Ð","Ñ","Ò","Ó","Ô","Õ","Ö","Ø","Ù","Ú",
                      "Û","Ü","Ý","Þ">>

Latin1LowerLetters == <<"à","á","â","ã","ä","å","æ","ç","è","é","ê","ë","ì",
                      "í","î","ï","ð","ñ","ò","ó","ô","õ","ö","ø","ù","ú",
                      "û","ü","ý","þ">>

UpperLetters == AsciiUpperLetters \o Latin1UpperLetters

LowerLetters == AsciiLowerLetters \o Latin1LowerLetters

\* lower-case letters whose upper case is not one character of the alphabet
UnpairedLowerLetters == {"ª", "µ", "º", "ß", "ÿ"}

DigitChars == <<"0","1","2","3","4","5","6","7","8","9">>

Range(f) == {f[i] : i \in DOMAIN f}

\* str.isupper() on one character
IsUpper(c) == c \in Range(UpperLetters)

\* str.islower() on one character
IsLower(c) == c \in Range(LowerLetters) \cup UnpairedLowerLetters

\* a cased character, as str.title() tests the character before
IsCased(c) == IsUpper(c) \/ IsLower(c)

\* [0-9a-zA-Z] of the re module
IsAsciiAlnum(c) ==
    c \in Range(AsciiUpperLetters) \cup Range(AsciiLowerLetters) \cup Range(DigitChars)

\* \d of the re module (no other character of the alphabet is a decimal digit)
IsDigit(c) == c \in Range(DigitChars)

\* \s of the re module and the characters str.strip() removes: tab, newline,
\* vertical tab, form feed, carriage return, U+001C to U+001F, space, U+0085
\* and the no-break space
IsSpace(c) ==
    c \in {"\t", "\n", "", "\f", "\r", "", "", "", "", " ", "", " "}

\* str.lower() on one character
Lower(c) ==
    IF IsUpper(c)
    THEN LowerLetters[CHOOSE i \in DOMAIN UpperLetters : UpperLetters[i] = c]
    ELSE c

\* the title case of one character, as str.title() writes it
TitleCase(c) ==
    IF c \in Range(LowerLetters)
    THEN <<UpperLetters[CHOOSE i \in DOMAIN LowerLetters : LowerLetters[i] = c]>>
    ELSE IF c = "ß" THEN <<"S", "s">>
    ELSE IF c = "µ" THEN <<"U+039C">>
    ELSE IF c = "ÿ" THEN <<"U+0178">>
    ELSE <<c>>

DigitValue(c) == (CHOOSE i \in DOMAIN DigitChars : DigitChars[i] = c) - 1

Min(S) == CHOOSE x \in S : \A y \in S : x <= y

Max(S) == CHOOSE x \in S : \A y \in S : x >= y

\* str.strip()
Strip(s) ==
    LET keep == {i \in DOMAIN s : ~IsSpace(s[i])}
    IN  IF keep = {} THEN <<>> ELSE SubSeq(s, Min(keep), Max(keep))

\* str.endswith(suffix)
EndsWith(s, suffix) ==
    /\ Len(s) >= Len(suffix)
    /\ SubSeq(s, Len(s) - Len(suffix) + 1, Len(s)) = suffix

\* sep.join(parts)
RECURSIVE Join(_, _)
Join(parts, sep) ==
    IF parts = <<>> THEN <<>>
    ELSE IF Len(parts) = 1 THEN parts[1]
    ELSE parts[1] \o sep \o Join(Tail(parts), sep)

\* All sequences over S of length at most n
RECURSIVE SeqsUpTo(_, _)
SeqsUpTo(S, n) ==
    IF n = 0 THEN {<<>>}
    ELSE LET shorter == SeqsUpTo(S, n - 1)
         IN  shorter \cup {Append(s, c) : s \in {t \in shorter : Len(t) = n - 1}, c \in S}

-----------------------------------------------------------------------------
(* Python values *)

None == [k |-> "None"]

Str(s) == [k |-> "str", s |-> s]

Float(sign, mant, exp) == [k |-> "float", sign |-> sign, mant |-> mant, exp |-> exp]

\* the inner lambda of line 108, closed over whatever it was called with
Function(captured) == [k |-> "function", captured |-> captured]

\* bool(v) for the values an extractor result can take
Truthy(v) == v.k # "None" /\ (v.k = "str" => v.s # <<>>)

-----------------------------------------------------------------------------
(* Regular expressions on numbers, and float() *)

\* index just after the longest run of digits starting at i (i when none)
DigitsEnd(s, i) ==
    LET stops == {j \in i..Len(s) : ~IsDigit(s[j])}
    IN  IF stops = {} THEN Len(s) + 1 ELSE Min(stops)

\* (?:\.\d+)? matched at e1: index just after the match (e1 when it is skipped)
FractionEnd(s, e1) ==
    IF e1 <= Len(s) /\ s[e1] = "." /\ DigitsEnd(s, e1 + 1) > e1 + 1
    THEN DigitsEnd(s, e1 + 1)
    ELSE e1

\* \d+(?:\.\d+)? matched at i: index just after the match, 0 when no match
NumberEnd(s, i) ==
    IF i > Len(s) \/ DigitsEnd(s, i) = i THEN 0 ELSE FractionEnd(s, DigitsEnd(s, i))

\* -?\d+(?:\.\d+)? matched at i: index just after the match, 0 when no match
SignedNumberEnd(s, i) ==
    IF i <= Len(s) /\ s[i] = "-" THEN NumberEnd(s, i + 1) ELSE NumberEnd(s, i)

\* the text (\d+(?:\.\d+)?%?) matches at i, where \d+(?:\.\d+)? ends before e
TokenText(s, i, e) ==
    IF e <= Len(s) /\ s[e] = "%" THEN Str(SubSeq(s, i, e)) ELSE Str(SubSeq(s, i, e - 1))

NumericTokenAt(s, i) == TokenText(s, i, NumberEnd(s, i))

\* re.search(r"(\d+(?:\.\d+)?%?)", s).group(1), None when there is no match
SearchNumericToken(s) ==
    LET starts == {i \in DOMAIN s : NumberEnd(s, i) # 0}
    IN  IF starts = {} THEN None ELSE NumericTokenAt(s, Min(starts))

\* index of the first character at or after e that \s does not match
SpacesEnd(s, e) ==
    LET nonspace == {j \in e..Len(s) : ~IsSpace(s[j])}
    IN  IF nonspace = {} THEN Len(s) + 1 ELSE Min(nonspace)

\* $ at p: the end of the string, or just before a newline that ends it
AtEnd(s, p) == p > Len(s) \/ (p = Len(s) /\ s[p] = "\n")

\* \s*%?$ matched at p, the spaces already skipped
PercentAndEnd(s, p) == AtEnd(s, p) \/ (p <= Len(s) /\ s[p] = "%" /\ AtEnd(s, p + 1))

\* the rest of the pattern below, -?\d+(?:\.\d+)? having ended before e (0: no match)
WholeNumberUpTo(s, e) ==
    IF e # 0 /\ PercentAndEnd(s, SpacesEnd(s, e)) THEN Str(SubSeq(s, 1, e - 1)) ELSE None

\* re.match(r"^(-?\d+(?:\.\d+)?)\s*%?$", s).group(1), None when there is no match
MatchWholeNumber(s) == WholeNumberUpTo(s, SignedNumberEnd(s, 1))

SignedNumberAt(s, i) == Str(SubSeq(s, i, SignedNumberEnd(s, i) - 1))

\* re.search(r"(-?\d+(?:\.\d+)?)", s).group(1), None when there is no match
SearchSignedNumber(s) ==
    LET starts == {i \in DOMAIN s : SignedNumberEnd(s, i) # 0}
    IN  IF starts = {} THEN None ELSE SignedNumberAt(s, Min(starts))

RECURSIVE DigitsToNat(_)
DigitsToNat(ds) ==
    IF ds = <<>> THEN 0
    ELSE 10 * DigitsToNat(SubSeq(ds, 1, Len(ds) - 1)) + DigitValue(ds[Len(ds)])

\* mant / 10^exp with the trailing zeros of the fraction removed
RECURSIVE Normalize(_, _, _)
Normalize(sign, mant, exp) ==
    IF exp > 0 /\ mant % 10 = 0
    THEN Normalize(sign, mant \div 10, exp - 1)
    ELSE Float(sign, mant, exp)

\* float(s) for s of the form -?\d+(\.\d+)?
UnsignedToFloat(sign, body) ==
    LET dots == {i \in DOMAIN body : body[i] = "."}
    IN  IF dots = {} THEN Normalize(sign, DigitsToNat(body), 0)
        ELSE Normalize(sign,
                       DigitsToNat(SubSeq(body, 1, Min(dots) - 1)
                                       \o SubSeq(body, Min(dots) + 1, Len(body))),
                       Len(body) - Min(dots))

ToFloat(s) == IF s[1] = "-" THEN UnsignedToFloat(-1, Tail(s)) ELSE UnsignedToFloat(1, s)

-----------------------------------------------------------------------------
(* String literals, as character sequences *)

S_Metric == <<"M","e","t","r","i","c">>

S_BallPossession == <<"B","a","l","l"," ","p","o","s","s","e","s","s","i","o","n">>

S_AverageGoals == <<"A","v","e","r","a","g","e"," ","g","o","a","l","s">>

S_CleanSheets == <<"C","l","e","a","n"," ","s","h","e","e","t","s">>

S_Goals == <<"G","o","a","l","s">>

S_ShotsOnTarget == <<"S","h","o","t","s"," ","o","n"," ","t","a","r","g","e","t">>

\* the literals of the label patterns (lines 78-82), lower case
P_ball_possession == <<"b","a","l","l"," ","p","o","s","s","e","s","s","i","o","n">>

P_avg_dot_goals == <<"a","v","g","."," ","g","o","a","l","s">>

P_avg_goals == <<"a","v","g"," ","g","o","a","l","s">>

P_goals_per_match == <<"g","o","a","l","s"," ","p","e","r"," ","m","a","t","c","h">>

P_average_goals == <<"a","v","e","r","a","g","e"," ","g","o","a","l","s">>

P_clean_sheet == <<"c","l","e","a","n"," ","s","h","e","e","t">>

P_goals == <<"g","o","a","l","s">>

P_on_target == <<"o","n"," ","t","a","r","g","e","t">>

\* re.search of a literal with re.I
ContainsCI(text, lit) ==
    \E i \in 1..(Len(text) - Len(lit) + 1) :
        \A n \in 1..Len(lit) : Lower(text[i + n - 1]) = lit[n]

\* the keys of candidates, in the order the dict literal lists them
candidates == <<S_BallPossession, S_AverageGoals, S_CleanSheets, S_Goals, S_ShotsOnTarget>>

\* label_re.search(text) for the pattern candidates holds for label_text
LabelSearch(label_text, text) ==
    CASE label_text = S_BallPossession -> ContainsCI(text, P_ball_possession)
      [] label_text = S_AverageGoals ->
            \/ ContainsCI(text, P_avg_dot_goals)
            \/ ContainsCI(text, P_avg_goals)
            \/ ContainsCI(text, P_goals_per_match)
            \/ ContainsCI(text, P_average_goals)
      [] label_text = S_CleanSheets -> ContainsCI(text, P_clean_sheet)
      [] label_text = S_Goals ->
            \* ^goals$ : the whole text, a final newline allowed
            LET low == [i \in DOMAIN text |-> Lower(text[i])]
            IN  low = P_goals \/ low = Append(P_goals, "\n")
      [] label_text = S_ShotsOnTarget -> ContainsCI(text, P_on_target)
      [] OTHER -> FALSE

-----------------------------------------------------------------------------
(* Document trees (the part of BeautifulSoup the code uses) *)

Leaf(tag, text) == [tag |-> tag, text |-> text, kids |-> <<>>]

Container(tag, kids) == [tag |-> tag, text |-> <<>>, kids |-> kids]

\* A node is named by its path from the root; <<>> is the BeautifulSoup object.
RECURSIVE NodeAt(_, _)
NodeAt(elems, path) ==
    IF Len(path) = 1 THEN elems[path[1]]
    ELSE NodeAt(elems[path[1]].kids, Tail(path))

KidsAt(doc, path) == IF path = <<>> THEN doc ELSE NodeAt(doc, path).kids

\* the strings below a list of elements, in document order
RECURSIVE StringsOf(_)
StringsOf(elems) ==
    IF elems = <<>> THEN <<>>
    ELSE (IF elems[1].kids # <<>> THEN StringsOf(elems[1].kids)
          ELSE IF elems[1].text = <<>> THEN <<>> ELSE <<elems[1].text>>)
         \o StringsOf(Tail(elems))

NodeStrings(doc, path) ==
    IF path = <<>> THEN StringsOf(doc) ELSE StringsOf(<<NodeAt(doc, path)>>)

\* tag.get_text(" ")
get_text_sep(doc, path) == Join(NodeStrings(doc, path), <<" ">>)

\* tag.get_text(strip=True)
StripEach(strs) == SelectSeq([i \in DOMAIN strs |-> Strip(strs[i])], LAMBDA x : x # <<>>)

get_text_strip(doc, path) == Join(StripEach(NodeStrings(doc, path)), <<>>)

\* the paths of the elements below a list of elements, in document order
RECURSIVE Descendants(_, _, _)
Descendants(elems, prefix, i) ==
    IF i > Len(elems) THEN <<>>
    ELSE <<Append(prefix, i)>>
            \o Descendants(elems[i].kids, Append(prefix, i), 1)
            \o Descendants(elems, prefix, i + 1)

NoNode == <<0>>

\* soup.find(predicate): the first element in document order, NoNode when none
FirstOf(all, hits) == IF hits = {} THEN NoNode ELSE all[Min(hits)]

\* node.parent of an element found in the tree (the root has none)
Parent(path) == SubSeq(path, 1, Len(path) - 1)

\* node.find_next_sibling(): the next element under the same parent
find_next_sibling(doc, path) ==
    IF path = <<>> THEN NoNode
    ELSE IF path[Len(path)] < Len(KidsAt(doc, Parent(path)))
    THEN Append(Parent(path), path[Len(path)] + 1)
    ELSE NoNode

\* soup.select_one(selector) for a type selector
SelectIn(doc, all, selector) ==
    FirstOf(all, {i \in DOMAIN all : NodeAt(doc, all[i]).tag = selector})

select_one(doc, selector) == SelectIn(doc, Descendants(doc, <<>>, 1), selector)

\* el.get_text(strip=True) when there is an element el, else None
TextOrNone(doc, el) == IF el = NoNode THEN None ELSE Str(get_text_strip(doc, el))

\* RequestsScraper.extract_by_selector
extract_by_selector(doc, selector) == TextOrNone(doc, select_one(doc, selector))

LabelTags == {"div", "span", "p", "td", "th"}

\* the predicate of lines 88 and 113
IsLabelNode(doc, path, label_text) ==
    /\ NodeAt(doc, path).tag \in LabelTags
    /\ get_text_strip(doc, path) # <<>>
    /\ LabelSearch(label_text, get_text_sep(doc, path))

FindLabelIn(doc, all, label_text) ==
    FirstOf(all, {i \in DOMAIN all : IsLabelNode(doc, all[i], label_text)})

FindLabel(doc, label_text) == FindLabelIn(doc, Descendants(doc, <<>>, 1), label_text)

-----------------------------------------------------------------------------
(* RequestsScraper.find_metrics: value resolution and the extractors *)

\* lines 93-95: val after the sibling step
SiblingStep(doc, label_node) == TextOrNone(doc, find_next_sibling(doc, label_node))

\* lines 97-100: val after the parent-sibling step
ParentSiblingStep(doc, label_node, val) ==
    IF ~Truthy(val) /\ find_next_sibling(doc, Parent(label_node)) # NoNode
    THEN Str(get_text_strip(doc, find_next_sibling(doc, Parent(label_node))))
    ELSE val

\* lines 102-105: val after the numeric-token step
NumericStep(doc, label_node, val) ==
    IF ~Truthy(val)
    THEN SearchNumericToken(get_text_sep(doc, label_node) \o <<" ">>
                                \o get_text_sep(doc, Parent(label_node)))
    ELSE val

\* a variant that looks beside the parent before it looks beside the label
ResolveValueParentFirst(doc, label_node) ==
    NumericStep(doc, label_node,
        IF Truthy(ParentSiblingStep(doc, label_node, None))
        THEN ParentSiblingStep(doc, label_node, None)
        ELSE SiblingStep(doc, label_node))

\* lines 91-105: val when the three steps are done
ResolveValue(doc, label_node) ==
    NumericStep(doc, label_node,
        ParentSiblingStep(doc, label_node, SiblingStep(doc, label_node)))

\* lines 116-124, node being an element of the tree
LazyResolve(doc, node) ==
    IF find_next_sibling(doc, node) # NoNode
    THEN Str(get_text_strip(doc, find_next_sibling(doc, node)))
    ELSE IF find_next_sibling(doc, Parent(node)) # NoNode
    THEN Str(get_text_strip(doc, find_next_sibling(doc, Parent(node))))
    ELSE SearchNumericToken(get_text_sep(doc, node))

LazyAt(doc, node) == IF node = NoNode THEN None ELSE LazyResolve(doc, node)

\* lines 112-124: the extractor make_lazy_extractor returns, applied to a tree
LazyExtract(label_text, doc) == LazyAt(doc, FindLabel(doc, label_text))

\* The callables find_metrics puts in its mapping
SelectorExtractor(sel) == [kind |-> "selector", sel |-> sel]

CapturedSelectorExtractor(sel, tree) == [kind |-> "captured_selector", sel |-> sel, soup |-> tree]

BoundExtractor(val) == [kind |-> "bound", captured_val |-> val]

LazyExtractor(label_text) == [kind |-> "lazy", lr |-> label_text]

ConstExtractor(raw) == [kind |-> "const", raw |-> raw]

\* lines 107-126: a bound extractor for a value, a lazy one without
ExtractorFor(label_text, val) ==
    IF Truthy(val) THEN BoundExtractor(val) ELSE LazyExtractor(label_text)

\* lines 87-126 for one candidate: <<>> when the label is absent, else one entry
DiscoverAt(doc, label_text, label_node) ==
    IF label_node = NoNode THEN <<>>
    ELSE <<[name |-> label_text,
            extractor |-> ExtractorFor(label_text, ResolveValue(doc, label_node))]>>

DiscoverOne(doc, label_text) == DiscoverAt(doc, label_text, FindLabel(doc, label_text))

\* lines 72-127: the mapping of the heuristic pass, in insertion order
RECURSIVE DiscoverFrom(_, _)
DiscoverFrom(doc, i) ==
    IF i > Len(candidates) THEN <<>>
    ELSE DiscoverOne(doc, candidates[i]) \o DiscoverFrom(doc, i + 1)

\* cls._extractor(soup) in fetch_raw (line 200)
CallExtractor(extractor, tree) ==
    CASE extractor.kind = "selector" -> extract_by_selector(tree, extractor.sel)
      [] extractor.kind = "captured_selector" -> extract_by_selector(extractor.soup, extractor.sel)
      [] extractor.kind = "bound" -> Function(tree)
      [] extractor.kind = "lazy" -> LazyExtract(extractor.lr, tree)
      [] extractor.kind = "const" -> extractor.raw

-----------------------------------------------------------------------------
(* MetricBase.get_value *)

Raise(exc) == [k |-> "raise", exc |-> exc]

\* lines 219-222, m2 being the match of line 218
CoerceEmbedded(raw, m2) == IF m2 # None THEN ToFloat(m2.s) ELSE Str(raw)

\* a variant that turns a percentage into a fraction
CoerceWholeScaled(raw, m) ==
    IF m # None
    THEN (IF raw[Len(raw)] = "%"
          THEN Normalize(ToFloat(m.s).sign, ToFloat(m.s).mant, ToFloat(m.s).exp + 2)
          ELSE ToFloat(m.s))
    ELSE CoerceEmbedded(raw, SearchSignedNumber(raw))

\* lines 212-218, m being the match of line 211
CoerceWhole(raw, m) ==
    IF m # None THEN ToFloat(m.s) ELSE CoerceEmbedded(raw, SearchSignedNumber(raw))

\* lines 211-222, raw being the stripped string of line 209
Coerce(raw) == CoerceWhole(raw, MatchWholeNumber(raw))

\* lines 207-222, given what fetch_raw returned
get_value(raw) ==
    IF raw.k = "None" THEN None
    ELSE IF raw.k # "str" THEN Raise("AttributeError")
    ELSE Coerce(Strip(raw.s))

-----------------------------------------------------------------------------
(* MetricMeta: identifiers *)

\* str.title()
Title(s) ==
    Join([i \in DOMAIN s |->
            IF i > 1 /\ IsCased(s[i - 1]) THEN <<Lower(s[i])>> ELSE TitleCase(s[i])],
         <<>>)

\* re.sub(r"[^0-9a-zA-Z]+", "", s)
StripNonAlnum(s) == SelectSeq(s, IsAsciiAlnum)

\* lines 279-280
WithSuffix(class_name) ==
    IF EndsWith(class_name, S_Metric) THEN class_name ELSE class_name \o S_Metric

OrMetric(base) == IF base = <<>> THEN S_Metric ELSE base

ClassName(metric_name) == WithSuffix(OrMetric(StripNonAlnum(Title(metric_name))))

\* line 295: the attribute name looked up for key k
LookupName(k) == StripNonAlnum(Title(k)) \o S_Metric

-----------------------------------------------------------------------------
(* The scrapers' find_metrics *)

Soup(tree) == [k |-> "soup", tree |-> tree]

\* what one call of fetch_soup does: a parsed tree, or an exception
FetchOk(tree) == [ok |-> TRUE, tree |-> tree]

FetchFail == [ok |-> FALSE]

Outcomes(D) == {FetchOk(t) : t \in D} \cup {FetchFail}

Found(mapping, soupv, fetched) ==
    [ok |-> TRUE, exc |-> "", mapping |-> mapping, soup |-> soupv, fetched |-> fetched]

NotFound(exc, fetched) ==
    [ok |-> FALSE, exc |-> exc, mapping |-> <<>>, soup |-> None, fetched |-> fetched]

\* RequestsScraper.find_metrics (lines 59-127); f is what self.fetch_soup does
\* if line 73 is reached
RequestsFindMetrics(metric_selectors, f) ==
    IF metric_selectors # <<>>
    THEN Found([i \in DOMAIN metric_selectors |->
                    [name |-> metric_selectors[i].name,
                     extractor |-> SelectorExtractor(metric_selectors[i].sel)]],
               None, <<>>)
    ELSE IF ~f.ok THEN NotFound("FetchError", <<"requests">>)
    ELSE Found(DiscoverFrom(f.tree, 1), Soup(f.tree), <<"requests">>)

\* PlaywrightScraper.find_metrics (lines 157-167); fpw is what self.fetch_soup
\* does at line 160, frq what the RequestsScraper of line 167 fetches
PlaywrightFindMetrics(metric_selectors, fpw, frq) ==
    IF ~fpw.ok THEN NotFound("FetchError", <<"playwright">>)
    ELSE IF metric_selectors # <<>>
    THEN Found([i \in DOMAIN metric_selectors |->
                    [name |-> metric_selectors[i].name,
                     extractor |-> CapturedSelectorExtractor(metric_selectors[i].sel, fpw.tree)]],
               Soup(fpw.tree), <<"playwright">>)
    ELSE [RequestsFindMetrics(<<>>, frq) EXCEPT !.fetched = <<"playwright">> \o @]

\* scraper.find_metrics(sofascore_url, metric_selectors) at line 275
FindMetrics(scraper, metric_selectors, fpw, frq) ==
    CASE scraper.kind = "requests" -> RequestsFindMetrics(metric_selectors, frq)
      [] scraper.kind = "playwright" -> PlaywrightFindMetrics(metric_selectors, fpw, frq)
      [] scraper.kind = "custom" -> Found(scraper.mapping, None, <<>>)

-----------------------------------------------------------------------------
(* MetricMeta.__new__ *)

RequestsScraper == [kind |-> "requests"]

PlaywrightScraper == [kind |-> "playwright"]

\* a caller's own scraper object: find_metrics hands back the mapping it holds
CustomScraper(mapping) == [kind |-> "custom", mapping |-> mapping]

\* no "scraper" entry in the class body
NoScraper == [kind |-> "none"]

\* an object without a find_metrics attribute
BadScraper == [kind |-> "nofind"]

\* lines 282-290: a generated class; its sofascore_url is set (line 262 passed)
MetricClass(class_name, metric_name, extractor) ==
    [class_name |-> class_name, metric_name |-> metric_name, has_url |-> TRUE,
     _extractor |-> extractor]

\* lines 180-183: the base class itself, with no url and no extractor
MetricBase ==
    [class_name |-> <<"M","e","t","r","i","c","B","a","s","e">>,
     metric_name |-> <<"u","n","n","a","m","e","d">>, has_url |-> FALSE,
     _extractor |-> None]

\* lines 277-292: the attributes set on cls, a later setattr replacing an earlier
InstallAll(discovered) ==
    LET ids == {ClassName(discovered[i].name) : i \in DOMAIN discovered}
    IN  [id \in ids |->
            LET i == Max({j \in DOMAIN discovered : ClassName(discovered[j].name) = id})
            IN  MetricClass(id, discovered[i].name, discovered[i].extractor)]

Outcome(st, err, scr, soupv, fetched, at, dm) ==
    [status |-> st, error |-> err, scraper |-> scr, soup |-> soupv,
     fetched |-> fetched, attrs |-> at, discovered_metrics |-> dm]

Empty == [x \in {} |-> None]

\* lines 277-297, the mapping found being what find_metrics returned
Assemble(scr, found, at, keys) ==
    IF ~found.ok
    THEN Outcome("Failed", found.exc, scr, None, found.fetched, Empty, Empty)
    ELSE IF \E key \in keys : LookupName(key) \notin DOMAIN at
    THEN Outcome("Failed", "AttributeError", scr, found.soup, found.fetched, Empty, Empty)
    ELSE Outcome("Ready", "", scr, found.soup, found.fetched, at,
                 [key \in keys |-> at[LookupName(key)]])

\* lines 274-297
Discover(scr, found) ==
    Assemble(scr, found, InstallAll(found.mapping),
             {found.mapping[i].name : i \in DOMAIN found.mapping})

\* lines 266-297, scr being the scraper after the default of line 268
NewWith(ns, scr, fpw, frq) ==
    IF scr.kind = "nofind"
    THEN Outcome("Failed", "RuntimeError", scr, None, <<>>, Empty, Empty)
    ELSE Discover(scr, FindMetrics(scr, ns.metric_selectors, fpw, frq))

\* lines 253-297
New(ns, fpw, frq) ==
    IF ~ns.has_url
    THEN Outcome("Plain", "", ns.scraper, None, <<>>, Empty, Empty)
    ELSE NewWith(ns, IF ns.scraper.kind = "none" THEN RequestsScraper ELSE ns.scraper,
                 fpw, frq)

-----------------------------------------------------------------------------
(* State *)

VARIABLES
    status,              \* "Uninitialized", "Plain", "Ready" or "Failed"
    error,               \* the exception __new__ raised, "" when none
    namespace,           \* the class body: has_url, scraper, metric_selectors
    scraper,             \* the scraper the metric classes hold (_scraper_instance)
    soup,                \* the tree find_metrics worked on, None when it fetched none
    fetched,             \* the fetchers invoked during __new__, in order
    attrs,               \* generated identifier -> metric class set on cls
    discovered_metrics,  \* cls._discovered_metrics: metric name -> metric class
    last                 \* the last call on a metric class and what it gave

vars == <<status, error, namespace, scraper, soup, fetched, attrs, discovered_metrics, last>>

NoCall ==
    [op |-> "none", cls |-> <<>>, slept |-> FALSE, tree |-> None, raw |-> None,
     result |-> None]

Init ==
    /\ status = "Uninitialized"
    /\ error = ""
    /\ namespace = [has_url |-> FALSE, scraper |-> NoScraper, metric_selectors |-> <<>>]
    /\ scraper = NoScraper
    /\ soup = None
    /\ fetched = <<>>
    /\ attrs = Empty
    /\ discovered_metrics = Empty
    /\ last = NoCall

\* the fetches __new__ can reach, given the class body
PwOutcomes(ns, D) ==
    IF ns.has_url /\ ns.scraper.kind = "playwright" THEN Outcomes(D) ELSE {FetchFail}

RqOutcomes(ns, D) ==
    IF ns.has_url /\ ns.metric_selectors = <<>> /\ ns.scraper.kind \in {"none", "requests", "playwright"}
    THEN Outcomes(D) ELSE {FetchFail}

\* class X(metaclass=MetricMeta) with a body from N, the site serving trees of D
Construct(N, D) ==
    /\ status = "Uninitialized"
    /\ \E ns \in N :
       \E fpw \in PwOutcomes(ns, D), frq \in RqOutcomes(ns, D) :
       \E o \in {New(ns, fpw, frq)} :
              /\ namespace' = ns
              /\ status' = o.status
              /\ error' = o.error
              /\ scraper' = o.scraper
              /\ soup' = o.soup
              /\ fetched' = o.fetched
              /\ attrs' = o.attrs
              /\ discovered_metrics' = o.discovered_metrics
    /\ UNCHANGED last

\* the classes a caller can reach: MetricBase, and the generated ones once the
\* class statement has completed
Classes ==
    {MetricBase} \cup (IF status = "Ready" THEN {attrs[id] : id \in DOMAIN attrs} ELSE {})

\* lines 194-197 let the call through
Fetches(cls) == cls.has_url /\ cls._extractor # None

\* MetricBase.fetch_raw (lines 191-200); f is what scraper.fetch_soup does
fetch_raw(cls, f) ==
    IF ~Fetches(cls) THEN Raise("RuntimeError")
    ELSE IF ~f.ok THEN Raise("FetchError")
    ELSE CallExtractor(cls._extractor, f.tree)

\* the tree the call fetched, None when it fetched none
TreeOf(cls, f) == IF Fetches(cls) /\ f.ok THEN Soup(f.tree) ELSE None

\* MetricBase.refresh (lines 224-229); time.sleep refuses a negative delay
refresh(cls, delay_seconds, f) ==
    IF delay_seconds < 0 THEN Raise("ValueError") ELSE fetch_raw(cls, f)

\* the delays a caller passes to refresh
Delays == {-1, 0, 1}

\* <class>.fetch_raw()
FetchRaw(D) ==
    /\ \E cls \in Classes, f \in Outcomes(D) :
       \E raw \in {fetch_raw(cls, f)} :
          last' = [op |-> "fetch_raw", cls |-> cls.class_name, slept |-> FALSE,
                   tree |-> TreeOf(cls, f), raw |-> raw, result |-> raw]
    /\ UNCHANGED <<status, error, namespace, scraper, soup, fetched, attrs, discovered_metrics>>

\* <class>.get_value()
GetValue(D) ==
    /\ \E cls \in Classes, f \in Outcomes(D) :
       \E raw \in {fetch_raw(cls, f)} :
          last' = [op |-> "get_value", cls |-> cls.class_name, slept |-> FALSE,
                   tree |-> TreeOf(cls, f), raw |-> raw,
                   result |-> IF raw.k = "raise" THEN raw ELSE get_value(raw)]
    /\ UNCHANGED <<status, error, namespace, scraper, soup, fetched, attrs, discovered_metrics>>

\* <class>.refresh(delay_seconds)
Refresh(D) ==
    /\ \E cls \in Classes, delay_seconds \in Delays, f \in Outcomes(D) :
       \E raw \in {refresh(cls, delay_seconds, f)} :
          last' = [op |-> "refresh", cls |-> cls.class_name, slept |-> delay_seconds > 0,
                   tree |-> IF delay_seconds < 0 THEN None ELSE TreeOf(cls, f),
                   raw |-> raw, result |-> raw]
    /\ UNCHANGED <<status, error, namespace, scraper, soup, fetched, attrs, discovered_metrics>>

-----------------------------------------------------------------------------
(* Inputs: texts, trees, class bodies *)

T_61 == <<"6","1","%">>

T_55 == <<"5","5","%">>

T_CleanSheets9 == <<"C","l","e","a","n"," ","s","h","e","e","t","s"," ","9">>

T_9 == <<"9">>

T_NA == <<"N","/","A">>

T_Padded61 == <<"\r","6","1","%"," ">>

\* <tr><td>c1</td>...</tr>
Row(tag, cells) == Container(tag, [i \in DOMAIN cells |-> Leaf("td", cells[i])])

\* the trees the site serves while a registry is built and used
PageDocs ==
    { <<Row("tr", <<S_BallPossession>>)>>,
      <<Row("tr", <<S_BallPossession, <<>>>>)>>,
      <<Row("tr", <<S_BallPossession, T_61>>)>>,
      <<Row("tr", <<S_BallPossession, T_Padded61>>)>>,
      <<Row("tr", <<S_BallPossession, <<>>>>), Leaf("div", T_55)>>,
      <<Row("tr", <<S_BallPossession, T_61>>), Leaf("div", T_55)>>,
      <<Row("tr", <<T_61, S_BallPossession>>)>>,
      <<Row("tr", <<T_CleanSheets9>>)>>,
      <<Row("div", <<S_BallPossession, T_61>>)>>,
      <<Row("tr", <<S_Goals, T_NA>>)>>,
      <<Leaf("div", T_NA)>> }

Entry(name, sel) == [name |-> name, sel |-> sel]

Body(has_url, scr, metric_selectors) ==
    [has_url |-> has_url, scraper |-> scr, metric_selectors |-> metric_selectors]

\* class bodies: each scraper, with no selectors or with explicit ones
PageBodies ==
    {Body(FALSE, NoScraper, <<>>), Body(TRUE, BadScraper, <<>>)}
    \cup {Body(TRUE, scr, sels) :
            scr \in {NoScraper, RequestsScraper, PlaywrightScraper},
            sels \in {<<>>,
                      <<Entry(S_BallPossession, "td")>>,
                      <<Entry(S_BallPossession, "div"), Entry(S_Goals, "td")>>}}

Next ==
    \/ Construct(PageBodies, PageDocs)
    \/ FetchRaw(PageDocs)
    \/ GetValue(PageDocs)
    \/ Refresh(PageDocs)

Spec == Init /\ [][Next]_vars

-----------------------------------------------------------------------------
(* Properties of a registry built and used against changing pages (Spec) *)

\* the metric class the last call was made on
Called == attrs[last.cls]

\* the last call fetched a tree (the fetcher did not fail)
Fetched(op) == status = "Ready" /\ last.op = op /\ last.tree # None

AutoMode == namespace.has_url /\ namespace.metric_selectors = <<>>

ExplicitMode == namespace.has_url /\ namespace.metric_selectors # <<>>

\* C1: a metric whose value resolved at discovery gives that captured string on
\* every fetch_raw, whatever tree the call fetched.
C1_BoundReplay ==
    (Fetched("fetch_raw") /\ Called._extractor.kind = "bound")
        => last.result = Called._extractor.captured_val

\* C2: a selector-based metric, with either scraper, gives on fetch_raw what its
\* selector resolves to in the tree fetched by that very call.
C2_SelectorLazy ==
    (Fetched("fetch_raw") /\ ExplicitMode)
        => last.result = extract_by_selector(last.tree.tree, Called._extractor.sel)

\* what the discovery-time steps make of a category on a tree: the resolved
\* string, None when the label is absent or no step gives a value
DiscoveryValueAt(doc, node) ==
    IF node # NoNode /\ Truthy(ResolveValue(doc, node)) THEN ResolveValue(doc, node) ELSE None

DiscoveryValue(doc, label_text) == DiscoveryValueAt(doc, FindLabel(doc, label_text))

\* C3: a category whose label is in the discovered document but for which no
\* value resolved still has a metric class, and get_value() on it against the
\* same document gives None and does not raise.
C3_LabelOnlyGivesNone ==
    /\ (status = "Ready" /\ AutoMode) =>
          \A i \in DOMAIN candidates :
             FindLabel(soup.tree, candidates[i]) # NoNode
                => /\ candidates[i] \in DOMAIN discovered_metrics
                   /\ discovered_metrics[candidates[i]].metric_name = candidates[i]
    /\ (Fetched("get_value") /\ AutoMode /\ last.tree = soup
          /\ DiscoveryValue(soup.tree, Called.metric_name) = None)
        => last.result = None

\* C8: the lazy extractor gives on any tree what the discovery-time resolution
\* of its category computes on that tree.
C8_LazySameAsDiscovery ==
    (Fetched("fetch_raw") /\ Called._extractor.kind = "lazy")
        => last.result = DiscoveryValue(last.tree.tree, Called._extractor.lr)

\* C9: building a registry without selectors fetches the page exactly once, with
\* the registry's own scraper, and evaluates every catalog category on that tree.
C9_FetchedOnce ==
    (status = "Ready" /\ AutoMode)
        => /\ fetched = <<scraper.kind>>
           /\ \A i \in DOMAIN candidates :
                 candidates[i] \in DOMAIN discovered_metrics
                    <=> FindLabel(soup.tree, candidates[i]) # NoNode

-----------------------------------------------------------------------------
(* Identifiers and collisions (SpecNames) *)

N_ball_possession == <<"b","a","l","l","-","p","o","s","s","e","s","s","i","o","n">>

N_GoalsMetric == <<"G","o","a","l","s"," ","M","e","t","r","i","c">>

N_goals == <<"g","o","a","l","s">>

N_bang == <<"!">>

N_elan == <<"é","l","a","n">>

MetricNames == {S_BallPossession, N_ball_possession, N_GoalsMetric, N_goals, N_bang, N_elan}

Selectors == {"td", "div"}

MaxSelectors == 2

\* metric_selectors dicts: up to MaxSelectors entries, in insertion order, keys distinct
SelectorMaps ==
    {m \in SeqsUpTo({Entry(n, sel) : n \in MetricNames, sel \in Selectors}, MaxSelectors) :
        /\ m # <<>>
        /\ \A i, j \in DOMAIN m : i # j => m[i].name # m[j].name}

NameBodies == {Body(TRUE, scr, m) : scr \in {RequestsScraper, PlaywrightScraper}, m \in SelectorMaps}

NameDocs == { <<Row("tr", <<T_61>>)>>, <<Leaf("div", T_55)>> }

NextNames ==
    \/ Construct(NameBodies, NameDocs)
    \/ FetchRaw(NameDocs)
    \/ GetValue(NameDocs)
    \/ Refresh(NameDocs)

SpecNames == Init /\ [][NextNames]_vars

\* __new__ ran to its end or failed in the loop of lines 277-295, not in a fetch
Assembled == status \in {"Ready", "Failed"} /\ error \notin {"FetchError", "RuntimeError"}

Entries == namespace.metric_selectors

\* the last entry whose name generates the identifier id
LastEntryFor(id) == Entries[Max({i \in DOMAIN Entries : ClassName(Entries[i].name) = id})]

\* C6: with two selector entries whose names generate the same identifier,
\* construction completes and the class under that identifier is the later entry's.
C6_CollisionLastWins ==
    (Assembled /\ \E i, j \in DOMAIN Entries :
                    i < j /\ ClassName(Entries[i].name) = ClassName(Entries[j].name))
        => /\ status = "Ready"
           /\ \A i \in DOMAIN Entries :
                 /\ ClassName(Entries[i].name) \in DOMAIN attrs
                 /\ attrs[ClassName(Entries[i].name)].metric_name
                        = LastEntryFor(ClassName(Entries[i].name)).name

\* C7: in a Ready registry every key of _discovered_metrics maps to a class whose
\* metric_name is that key.
C7_KeysMatchNames ==
    status = "Ready"
        => \A key \in DOMAIN discovered_metrics : discovered_metrics[key].metric_name = key

\* the identifier as the claim words it: title-cased, non-alphanumerics stripped,
\* the suffix appended only if not already there
IdentifierOf(metric_name) ==
    IF EndsWith(OrMetric(StripNonAlnum(Title(metric_name))), S_Metric)
    THEN OrMetric(StripNonAlnum(Title(metric_name)))
    ELSE StripNonAlnum(Title(metric_name)) \o S_Metric

\* C10: the same identifier installs a class and looks it up, so construction
\* reaches Ready also for names ending in the suffix, and the mapping entry of a
\* name is the class installed for it.
C10_SameIdentifier ==
    Assembled
        => /\ status = "Ready"
           /\ \A i \in DOMAIN Entries :
                 /\ IdentifierOf(Entries[i].name) \in DOMAIN attrs
                 /\ Entries[i].name \in DOMAIN discovered_metrics
                 /\ discovered_metrics[Entries[i].name] = attrs[IdentifierOf(Entries[i].name)]

-----------------------------------------------------------------------------
(* Discovery-time value resolution over a family of trees (SpecResolve) *)

Texts == {<<>>, S_BallPossession, T_CleanSheets9, T_61, T_55}

RowTags == {"tr", "div"}

MaxCells == 2

\* rows of one to MaxCells cells
Rows == {Row(tag, cells) : tag \in RowTags, cells \in SeqsUpTo(Texts, MaxCells) \ {<<>>}}

\* one row, alone or followed by one more element
ResolveDocs ==
    {<<r>> : r \in Rows} \cup {<<r, Leaf(tag, t)>> : r \in Rows, tag \in RowTags, t \in Texts}

ResolveBodies == {Body(TRUE, scr, <<>>) : scr \in {NoScraper, RequestsScraper}}

NextResolve == Construct(ResolveBodies, ResolveDocs)

SpecResolve == Init /\ [][NextResolve]_vars

IsDigits(t) == t # <<>> /\ \A i \in DOMAIN t : IsDigit(t[i])

\* digits, optionally a point and digits
IsUnsigned(t) ==
    \/ IsDigits(t)
    \/ \E d \in DOMAIN t :
          t[d] = "." /\ IsDigits(SubSeq(t, 1, d - 1)) /\ IsDigits(SubSeq(t, d + 1, Len(t)))

\* digits, optional decimal part, optional %
IsNumericToken(t) ==
    \/ IsUnsigned(t)
    \/ t # <<>> /\ t[Len(t)] = "%" /\ IsUnsigned(SubSeq(t, 1, Len(t) - 1))

\* the leftmost token of the text, at its longest; None when the text has none
LongestFrom(text, i, IsTok(_)) ==
    Str(SubSeq(text, i, Max({j \in i..Len(text) : IsTok(SubSeq(text, i, j))})))

FirstToken(text, IsTok(_)) ==
    IF \E i, j \in DOMAIN text : IsTok(SubSeq(text, i, j))
    THEN LongestFrom(text,
                     Min({i \in DOMAIN text : \E j \in DOMAIN text : IsTok(SubSeq(text, i, j))}),
                     IsTok)
    ELSE None

SiblingOverParentDoc == <<Row("tr", <<S_BallPossession, T_61>>), Leaf("div", T_55)>>

EmbeddedTokenDoc == <<Row("tr", <<T_CleanSheets9>>)>>

\* text of the element after the one at path, <<>> when there is none
NextText(doc, path) ==
    IF path # <<>> /\ path[Len(path)] < Len(KidsAt(doc, Parent(path)))
    THEN get_text_strip(doc, Append(Parent(path), path[Len(path)] + 1))
    ELSE <<>>

\* the fallback chain as stated: sibling, else parent's sibling, else the first
\* numeric token of label text and parent text put together with sep between,
\* else no value
ChainValue(doc, node, sep) ==
    IF NextText(doc, node) # <<>> THEN Str(NextText(doc, node))
    ELSE IF NextText(doc, Parent(node)) # <<>> THEN Str(NextText(doc, Parent(node)))
    ELSE FirstToken(get_text_sep(doc, node) \o sep \o get_text_sep(doc, Parent(node)),
                    IsNumericToken)

\* every discovered category holds the extractor the chain calls for
ChainHolds(sep) ==
    \A i \in DOMAIN candidates :
       FindLabel(soup.tree, candidates[i]) # NoNode =>
          /\ candidates[i] \in DOMAIN discovered_metrics
          /\ discovered_metrics[candidates[i]]._extractor =
                ExtractorFor(candidates[i],
                             ChainValue(soup.tree, FindLabel(soup.tree, candidates[i]), sep))

ChainExamples ==
    /\ soup.tree = SiblingOverParentDoc =>
          discovered_metrics[S_BallPossession]._extractor = BoundExtractor(Str(T_61))
    /\ soup.tree = EmbeddedTokenDoc =>
          discovered_metrics[S_CleanSheets]._extractor = BoundExtractor(Str(T_9))

\* C5 as stated: the value discovery resolves for a label node is the first
\* success of the chain sibling, parent's sibling, first numeric token of the label
\* text concatenated with the parent's text, else no value; "61%" beside the label
\* wins over "55%" beside its parent, and "Clean sheets 9" alone gives "9".
C5_ConcatenatedTexts ==
    (status = "Ready" /\ AutoMode) => (ChainHolds(<<>>) /\ ChainExamples)

\* C5 amended: the same chain, the numeric token being searched in the label text
\* and the parent's text joined by one space.
C5_FallbackChain ==
    (status = "Ready" /\ AutoMode) => (ChainHolds(<<" ">>) /\ ChainExamples)

\* a label with "61%" beside it and "55%" beside its parent resolved to "61%"
C5_Witness ==
    /\ status = "Ready"
    /\ soup = Soup(SiblingOverParentDoc)
    /\ discovered_metrics[S_BallPossession]._extractor = BoundExtractor(Str(T_61))

-----------------------------------------------------------------------------
(* get_value over raw strings (SpecCoerce) *)

RawAlphabet == {"-", "0", "7", ".", "%", " ", "a"}

MaxRawLen == 4

R_43pct == <<"4","3","%">>

R_1_25 == <<"1",".","2","5">>

R_Rank7th == <<"R","a","n","k",":"," ","7","t","h">>

R_PaddedNA == <<" ","N","/","A"," ">>

R_ReturnNA == <<"\r","N","/","A"," ">>

R_61pct == <<"6","1"," ","%","\f">>

RawStrings ==
    SeqsUpTo(RawAlphabet, MaxRawLen)
        \cup {R_43pct, R_1_25, T_NA, R_Rank7th, R_PaddedNA, R_ReturnNA, R_61pct}

\* a scraper whose find_metrics maps one metric to an extractor giving raw
RawScraper(raw) ==
    CustomScraper(<<[name |-> S_Goals, extractor |-> ConstExtractor(raw)]>>)

\* a scraper whose find_metrics maps one metric to no extractor at all
NoExtractorScraper == CustomScraper(<<[name |-> S_Goals, extractor |-> None]>>)

CoerceBodies ==
    {Body(TRUE, RawScraper(raw), <<>>) : raw \in {None} \cup {Str(r) : r \in RawStrings}}
        \cup {Body(TRUE, NoExtractorScraper, <<>>)}

CoerceDocs == { <<Leaf("div", T_NA)>> }

NextCoerce == Construct(CoerceBodies, CoerceDocs) \/ GetValue(CoerceDocs)

SpecCoerce == Init /\ [][NextCoerce]_vars

\* optional minus, digits, optional decimal fraction
IsSigned(t) == IsUnsigned(t) \/ (t # <<>> /\ t[1] = "-" /\ IsUnsigned(Tail(t)))

\* the same, with an optional trailing percent
IsWholeNumber(t) ==
    IsSigned(t) \/ (t # <<>> /\ t[Len(t)] = "%" /\ IsSigned(SubSeq(t, 1, Len(t) - 1)))

WithoutPercent(t) == IF t[Len(t)] = "%" THEN SubSeq(t, 1, Len(t) - 1) ELSE t

\* what the claim gives for a string raw, rest being what it gives when raw
\* holds no number at all
ClaimedValue(raw, rest) ==
    IF IsWholeNumber(Strip(raw)) THEN ToFloat(WithoutPercent(Strip(raw)))
    ELSE IF FirstToken(Strip(raw), IsSigned) # None
    THEN ToFloat(FirstToken(Strip(raw), IsSigned).s)
    ELSE rest

CoerceCalled == Fetched("get_value") /\ last.raw.k \in {"None", "str"}

CoerceExamples ==
    /\ last.raw = Str(R_43pct) => last.result = Float(1, 43, 0)
    /\ last.raw = Str(R_1_25) => last.result = Float(1, 125, 2)
    /\ last.raw = Str(R_Rank7th) => last.result = Float(1, 7, 0)
    /\ last.raw = Str(T_NA) => last.result = Str(T_NA)

\* C4 as stated: None gives None; a whole number, with or without %, gives that
\* number unscaled; else the first numeric token gives the number; else the
\* original raw string comes back unchanged.
C4_OriginalUnchanged ==
    CoerceCalled =>
        /\ last.raw = None => last.result = None
        /\ last.raw # None => last.result = ClaimedValue(last.raw.s, last.raw)
        /\ CoerceExamples

\* C4 amended: as above, but a string holding no number comes back trimmed.
C4_TrimmedOtherwise ==
    CoerceCalled =>
        /\ last.raw = None => last.result = None
        /\ last.raw # None => last.result = ClaimedValue(last.raw.s, Str(Strip(last.raw.s)))
        /\ CoerceExamples

\* get_value() was given " N/A " and gave "N/A"
C4_Witness == CoerceCalled /\ last.raw = Str(R_PaddedNA) /\ last.result = Str(T_NA)

====
